---- MODULE Spec2Model ----
(***************************************************************************)
(* Model of the bip-tools derivation/encoding engine (src/src/lib.rs,     *)
(* src/src/utils.rs): parsing and serialising an extended public key,      *)
(* non-hardened child derivation, Legacy and CashAddr address rendering    *)
(* and the flat / BIP44 batch drivers.                                     *)
(*                                                                         *)
(* Representation.  Bytes are 0..255 and byte strings are sequences.  Text *)
(* is a sequence of ASCII codes.  A u32 is the record [hi, lo] of its two  *)
(* 16-bit halves (value = hi * 65536 + lo), because the values the code    *)
(* compares (0x8000_0000) do not fit the checker's integers.  The hash     *)
(* functions and the curve come from external crates; they are replaced by *)
(* small deterministic stand-ins with the same shapes (digest lengths, a   *)
(* curve y^2 = x^3 + 7 of prime order with compressed 33-byte points).     *)
(***************************************************************************)
EXTENDS Integers, Sequences, FiniteSets, TLC

----------------------------------------------------------------------------
(* Byte-string helpers                                                     *)

Byte == 0..255

Zeros(n) == [k \in 1..n |-> 0]

Slice(s, from, to) == [k \in 1..(to - from) |-> s[from + k]]
  \* Rust s[from..to]: 0-based, end exclusive

LeadingCount(s, v) ==
  \* number of leading elements of s equal to v
  IF \A k \in 1..Len(s) : s[k] = v THEN Len(s)
  ELSE (CHOOSE k \in 1..Len(s) : s[k] # v /\ \A j \in 1..(k - 1) : s[j] = v) - 1

Reverse(s) == [k \in 1..Len(s) |-> s[Len(s) + 1 - k]]

----------------------------------------------------------------------------
(* u32 values and their big-endian byte form                               *)

U32(n) == [hi |-> 0, lo |-> n]            \* a small natural as a u32

U32Ge(a, b) == a.hi > b.hi \/ (a.hi = b.hi /\ a.lo >= b.lo)

U32Gt(a, b) == a.hi > b.hi \/ (a.hi = b.hi /\ a.lo > b.lo)

to_le_bytes(v) ==
  \* variant: least significant byte first
  <<v.lo % 256, v.lo \div 256, v.hi % 256, v.hi \div 256>>

to_be_bytes(v) == <<v.hi \div 256, v.hi % 256, v.lo \div 256, v.lo % 256>>

from_be_bytes(b) == [hi |-> b[1] * 256 + b[2], lo |-> b[3] * 256 + b[4]]

----------------------------------------------------------------------------
(* Base58 (crate base58, traits ToBase58 / FromBase58): text <-> bytes,    *)
(* no checksum handling                                                    *)

ALPHABET ==
  << 49, 50, 51, 52, 53, 54, 55, 56, 57,
     65, 66, 67, 68, 69, 70, 71, 72, 74, 75, 76, 77, 78, 80, 81, 82, 83, 84,
     85, 86, 87, 88, 89, 90,
     97, 98, 99, 100, 101, 102, 103, 104, 105, 106, 107, 109, 110, 111, 112,
     113, 114, 115, 116, 117, 118, 119, 120, 121, 122 >>
  \* "123456789ABCDEFGHJKLMNPQRSTUVWXYZabcdefghijkmnopqrstuvwxyz"

InAlphabet(c) == \E d \in 1..58 : ALPHABET[d] = c

DigitOf(c) == (CHOOSE d \in 1..58 : ALPHABET[d] = c) - 1

RECURSIVE DivMod58(_, _)
DivMod58(num, rem) ==
  \* long division by 58 of the big-endian number num with incoming
  \* remainder rem: <<quotient digits, remainder>>; pieces of up to three
  \* bytes are divided as one number
  IF Len(num) = 0 THEN <<num, rem>>
  ELSE IF Len(num) = 1
  THEN LET cur == rem * 256 + num[1]
       IN  <<<<cur \div 58>>, cur % 58>>
  ELSE IF Len(num) = 2
  THEN LET cur == rem * 65536 + num[1] * 256 + num[2]
           q   == cur \div 58
       IN  <<<<q \div 256, q % 256>>, cur % 58>>
  ELSE IF Len(num) = 3
  THEN LET cur == rem * 16777216 + num[1] * 65536 + num[2] * 256 + num[3]
           q   == cur \div 58
       IN  <<<<q \div 65536, (q \div 256) % 256, q % 256>>, cur % 58>>
  ELSE LET mid == Len(num) \div 2
           hi  == DivMod58(SubSeq(num, 1, mid), rem)
           lo  == DivMod58(SubSeq(num, mid + 1, Len(num)), hi[2])
       IN  <<hi[1] \o lo[1], lo[2]>>

StripZeros(s) == SubSeq(s, LeadingCount(s, 0) + 1, Len(s))

Div58Step(st) ==
  \* st = <<number still to convert, digits found so far>>: one division
  LET qr == DivMod58(st[1], 0)
  IN  <<StripZeros(qr[1]), <<qr[2]>> \o st[2]>>

RECURSIVE Div58Steps(_, _)
Div58Steps(st, n) ==
  \* at most n divisions, stopping when the number is exhausted
  IF Len(st[1]) = 0 \/ n = 0 THEN st
  ELSE IF n = 1 THEN Div58Step(st)
  ELSE Div58Steps(Div58Steps(st, n \div 2), n - n \div 2)

Digits58(num) ==
  \* base-58 digits of the big-endian number num, most significant first
  \* (a byte gives fewer than two digits)
  Div58Steps(<<num, <<>>>>, 2 * Len(num))[2]

ToBase58(bytes) ==
  \* [u8]::to_base58: one '1' per leading zero byte, then the digits
  LET z      == LeadingCount(bytes, 0)
      digits == Digits58(StripZeros(bytes))
  IN  [k \in 1..z |-> ALPHABET[1]] \o
      [k \in 1..Len(digits) |-> ALPHABET[digits[k] + 1]]

RECURSIVE MulAdd58(_, _)
MulAdd58(num, carry) ==
  \* num * 58 + carry on a little-endian number: <<digits, carry out>>;
  \* pieces of up to three bytes are multiplied as one number
  IF Len(num) = 0 THEN <<num, carry>>
  ELSE IF Len(num) = 1
  THEN LET cur == num[1] * 58 + carry
       IN  <<<<cur % 256>>, cur \div 256>>
  ELSE IF Len(num) = 2
  THEN LET cur == (num[1] + num[2] * 256) * 58 + carry
       IN  <<<<cur % 256, (cur \div 256) % 256>>, cur \div 65536>>
  ELSE IF Len(num) = 3
  THEN LET cur == (num[1] + num[2] * 256 + num[3] * 65536) * 58 + carry
       IN  <<<<cur % 256, (cur \div 256) % 256, (cur \div 65536) % 256>>,
             cur \div 16777216>>
  ELSE LET mid == Len(num) \div 2
           lo  == MulAdd58(SubSeq(num, 1, mid), carry)
           hi  == MulAdd58(SubSeq(num, mid + 1, Len(num)), lo[2])
       IN  <<lo[1] \o hi[1], hi[2]>>

Push58(num, digit) ==
  \* num * 58 + digit, growing the number by one byte on carry out
  LET r == MulAdd58(num, digit)
  IN  IF r[2] = 0 THEN r[1] ELSE Append(r[1], r[2])

RECURSIVE Number58(_, _, _)
Number58(text, st, n) ==
  \* st = <<next position, little-endian number written by the characters
  \* before it>>; reads at most n further characters
  IF st[1] > Len(text) \/ n = 0 THEN st
  ELSE IF n = 1
  THEN <<st[1] + 1, Push58(st[2], DigitOf(text[st[1]]))>>
  ELSE Number58(text, Number58(text, st, n \div 2), n - n \div 2)

FromBase58(text) ==
  \* str::from_base58: Err on a character outside the alphabet
  IF \E k \in 1..Len(text) : ~InAlphabet(text[k])
  THEN [ok |-> FALSE, bytes |-> <<>>]
  ELSE LET z == LeadingCount(text, ALPHABET[1])
       IN  [ok |-> TRUE, bytes |-> Zeros(z) \o
                            Reverse(Number58(text, <<z + 1, <<>>>>, Len(text))[2])]

----------------------------------------------------------------------------
(* Digests (crates sha2, ripemd, hmac).  Stand-ins: a position-weighted    *)
(* sum of the input, spread over a digest of the right length.  A change   *)
(* of one input byte changes every digest.                                 *)

HashModulus == 65521

RECURSIVE WeightedSum(_, _, _, _)
WeightedSum(data, lo, hi, mult) ==
  IF lo > hi THEN 0
  ELSE IF lo = hi THEN (data[lo] + 1) * (1 + ((lo * mult) % 251))
  ELSE LET mid == (lo + hi) \div 2
       IN  WeightedSum(data, lo, mid, mult) +
           WeightedSum(data, mid + 1, hi, mult)

Digest(data, mult, seed, len) ==
  LET h == (WeightedSum(data, 1, Len(data), mult) + Len(data)) % HashModulus
  IN  [k \in 1..len |->
         IF k % 2 = 1 THEN ((h \div 256) + k * seed) % 256
                      ELSE (h + k * seed) % 256]

Sha256(data) == Digest(data, 131, 17, 32)

Ripemd160(data) == Digest(data, 89, 29, 20)

TweakRange == 37

HmacSha512(key, data) ==
  \* 64 bytes.  The left half is kept below TweakRange, as a 32-byte
  \* big-endian numeral, so that scalars inside and outside the (small)
  \* group order both occur.
  LET d == Digest(key \o <<92>> \o data, 57, 43, 64)
      t == (d[1] * 256 + d[2]) % TweakRange
  IN  [k \in 1..64 |-> IF k < 32 THEN 0 ELSE IF k = 32 THEN t ELSE d[k]]

----------------------------------------------------------------------------
(* The curve (crate secp256k1).  Stand-in: y^2 = x^3 + 7 over the field of *)
(* FieldPrime elements, a group of prime order GroupOrder with generator   *)
(* Generator.  A point is <<x, y>>; Infinity is <<>>.                      *)

FieldPrime == 43

GroupOrder == 31

Generator == <<2, 12>>

Infinity == <<>>

FieldInv(a) == CHOOSE b \in 1..(FieldPrime - 1) : (a * b) % FieldPrime = 1

FieldSub(a, b) == (a + FieldPrime - b) % FieldPrime

OnCurve(x, y) == (y * y) % FieldPrime = (x * x * x + 7) % FieldPrime

PointAdd(P, Q) ==
  IF P = Infinity THEN Q
  ELSE IF Q = Infinity THEN P
  ELSE IF P[1] = Q[1] /\ (P[2] + Q[2]) % FieldPrime = 0 THEN Infinity
  ELSE LET l == IF P = Q
                THEN (3 * P[1] * P[1] * FieldInv((2 * P[2]) % FieldPrime))
                       % FieldPrime
                ELSE (FieldSub(Q[2], P[2]) * FieldInv(FieldSub(Q[1], P[1])))
                       % FieldPrime
           x == FieldSub(FieldSub((l * l) % FieldPrime, P[1]), Q[1])
           y == FieldSub((l * FieldSub(P[1], x)) % FieldPrime, P[2])
       IN  <<x, y>>

RECURSIVE ScalarMul(_, _)
ScalarMul(t, P) ==
  IF t = 0 THEN Infinity
  ELSE IF t = 1 THEN P
  ELSE LET half == ScalarMul(t \div 2, P)
           dbl  == PointAdd(half, half)
       IN  IF t % 2 = 1 THEN PointAdd(dbl, P) ELSE dbl

serialize(P) ==
  \* PublicKey::serialize: 33 bytes, parity prefix then big-endian x
  <<2 + (P[2] % 2)>> \o Zeros(31) \o <<P[1]>>

PublicKey_from_slice(bytes) ==
  \* PublicKey::from_slice on 33 bytes: the point, or no point
  LET x == bytes[33]
  IN  IF /\ Len(bytes) = 33
         /\ bytes[1] \in {2, 3}
         /\ \A k \in 2..32 : bytes[k] = 0
         /\ x < FieldPrime
         /\ \E y \in 0..(FieldPrime - 1) : OnCurve(x, y)
      THEN <<CHOOSE P \in {<<x, y>> : y \in 0..(FieldPrime - 1)} :
               OnCurve(P[1], P[2]) /\ P[2] % 2 = bytes[1] - 2>>
      ELSE <<>>

SecretKey_from_slice(bytes) ==
  \* SecretKey::from_slice on 32 bytes: the scalar if 0 < value < order
  IF /\ \A k \in 1..31 : bytes[k] = 0
     /\ bytes[32] > 0
     /\ bytes[32] < GroupOrder
  THEN <<bytes[32]>>
  ELSE <<>>

add_exp_tweak(P, t) ==
  \* PublicKey::add_exp_tweak: P + t*G, or no point when that is infinity
  LET Q == PointAdd(P, ScalarMul(t, Generator))
  IN  IF Q = Infinity THEN <<>> ELSE <<Q>>

----------------------------------------------------------------------------
(* Xpub (src/src/lib.rs).  A node is the record of the struct's fields;    *)
(* public_key is a curve point.  A Result is [kind, err, node] with kind   *)
(* "Ok", "Err" or "Panic" and node a sequence of at most one node.         *)

Xpub_new(depth, parent_fingerprint, child_number, chain_code, public_key) ==
  [depth |-> depth, parent_fingerprint |-> parent_fingerprint,
   child_number |-> child_number, chain_code |-> chain_code,
   public_key |-> public_key]

Ok(node) == [kind |-> "Ok", err |-> "", node |-> <<node>>]

Err(e) == [kind |-> "Err", err |-> e, node |-> <<>>]

Panic(e) == [kind |-> "Panic", err |-> e, node |-> <<>>]

XPUB_LEN == 82

XPUB_VERSION == <<4, 136, 178, 30>>

Checksum(data) == SubSeq(Sha256(Sha256(data)), 1, 4)

from_base58_KeyFirst(xpub) ==
  \* variant: the public key is examined before the length
  LET decoded == FromBase58(xpub)
  IN  IF ~decoded.ok THEN Err("Base58 decode error")
      ELSE IF Len(decoded.bytes) >= 78 /\
              PublicKey_from_slice(Slice(decoded.bytes, 45, 78)) = <<>>
      THEN Err("Invalid public key")
      ELSE IF Len(decoded.bytes) # XPUB_LEN THEN Err("Invalid xpub length")
      ELSE LET bytes == decoded.bytes
           IN  Ok(Xpub_new(bytes[5],
                           from_be_bytes(Slice(bytes, 5, 9)),
                           from_be_bytes(Slice(bytes, 9, 13)),
                           Slice(bytes, 13, 45),
                           PublicKey_from_slice(Slice(bytes, 45, 78))[1]))

from_base58(xpub) ==
  LET decoded == FromBase58(xpub)
  IN  IF ~decoded.ok THEN Err("Base58 decode error")
      ELSE IF Len(decoded.bytes) # XPUB_LEN THEN Err("Invalid xpub length")
      ELSE LET bytes      == decoded.bytes
               public_key == PublicKey_from_slice(Slice(bytes, 45, 78))
           IN  IF public_key = <<>> THEN Err("Invalid public key")
               ELSE Ok(Xpub_new(bytes[5],
                                from_be_bytes(Slice(bytes, 5, 9)),
                                from_be_bytes(Slice(bytes, 9, 13)),
                                Slice(bytes, 13, 45),
                                public_key[1]))

to_base58(self) ==
  LET data == XPUB_VERSION \o <<self.depth>> \o
              to_be_bytes(self.parent_fingerprint) \o
              to_be_bytes(self.child_number) \o
              self.chain_code \o serialize(self.public_key)
  IN  ToBase58(data \o Checksum(data))

Hash160(data) == Ripemd160(Sha256(data))

to_bitcoin_address_HashChecksum(self) ==
  \* variant: the checksum is taken over the hash without the version byte
  LET hash == Hash160(serialize(self.public_key))
  IN  ToBase58(<<0>> \o hash \o Checksum(hash))

to_bitcoin_address(self) ==
  LET data == <<0>> \o Hash160(serialize(self.public_key))
  IN  ToBase58(data \o Checksum(data))

fingerprint_OfNode(self) ==
  \* variant: the chain code is hashed along with the key
  from_be_bytes(SubSeq(Hash160(serialize(self.public_key) \o
                               self.chain_code), 1, 4))

fingerprint(self) ==
  from_be_bytes(SubSeq(Hash160(serialize(self.public_key)), 1, 4))

HARDENED == [hi |-> 32768, lo |-> 0]          \* 0x8000_0000

IsHardened_Exclusive(index) == U32Gt(index, HARDENED)
  \* variant: tests index > 0x8000_0000

IsHardened(index) == U32Ge(index, HARDENED)

ChildDepth(depth, overflow_checks) ==
  \* self.depth + 1 on a u8: above 255 the build either panics (overflow
  \* checks on) or wraps; <<>> stands for the panic
  IF depth + 1 <= 255 THEN <<depth + 1>>
  ELSE IF overflow_checks THEN <<>> ELSE <<(depth + 1) % 256>>

derive_non_hardened(self, index, overflow_checks) ==
  IF IsHardened(index) THEN Err("InvalidTweak")
  ELSE LET data   == serialize(self.public_key) \o to_be_bytes(index)
           result == HmacSha512(self.chain_code, data)
           i_l    == SubSeq(result, 1, 32)
           i_r    == SubSeq(result, 33, 64)
           tweak  == SecretKey_from_slice(i_l)
       IN  IF tweak = <<>> THEN Err("InvalidSecretKey")
           ELSE LET child_pubkey == add_exp_tweak(self.public_key, tweak[1])
                    depth        == ChildDepth(self.depth, overflow_checks)
                IN  IF child_pubkey = <<>> THEN Err("InvalidTweak")
                    ELSE IF depth = <<>>
                    THEN Panic("attempt to add with overflow")
                    ELSE Ok(Xpub_new(depth[1], fingerprint(self), index,
                                     i_r, child_pubkey[1]))

----------------------------------------------------------------------------
(* CashAddress (src/src/utils.rs).  The 40-bit value of poly_mod is the    *)
(* sequence of its eight 5-bit groups, most significant first.             *)

CASHADDR_CHARSET ==                  \* "qpzry9x8gf2tvdw0s3jn54khce6mua7l"
  <<113, 112, 122, 114, 121, 57, 120, 56, 103, 102, 50, 116, 118, 100, 119,
    48, 115, 51, 106, 110, 53, 52, 107, 104, 99, 101, 54, 109, 117, 97, 55,
    108>>

CASHADDR_PREFIX ==                   \* "bitcoincash"
  <<98, 105, 116, 99, 111, 105, 110, 99, 97, 115, 104>>

PREFIX_LITERAL ==                    \* "bitcoincash:" of the format string
  <<98, 105, 116, 99, 111, 105, 110, 99, 97, 115, 104, 58>>

AddressFormats == {"Legacy", "CashAddr", "CashAddrWithPrefix"}

RECURSIVE Pow2(_)
Pow2(n) == IF n = 0 THEN 1 ELSE 2 * Pow2(n - 1)       \* 1 << n

ACC_BITS == 64                                        \* acc: u64

U64(v) ==
  \* a u8 widened to u64: its ACC_BITS bits, most significant first
  Zeros(ACC_BITS - 8) \o [k \in 1..8 |-> (v \div Pow2(8 - k)) % 2]

Shl(a, k) == SubSeq(a, k + 1, ACC_BITS) \o Zeros(k)   \* a << k, k < 64

Shr(a, k) == Zeros(k) \o SubSeq(a, 1, ACC_BITS - k)   \* a >> k, k < 64

BitOr(a, b) == [k \in 1..ACC_BITS |-> IF a[k] + b[k] > 0 THEN 1 ELSE 0]

MaskU8(a, to) ==
  \* (a & maxv) as u8, where maxv = (1 << to) - 1
  LET w      == IF to < 8 THEN to ELSE 8
      Bit(j) == IF j < w THEN a[ACC_BITS - j] * Pow2(j) ELSE 0
  IN  Bit(0) + Bit(1) + Bit(2) + Bit(3) + Bit(4) + Bit(5) + Bit(6) + Bit(7)

RECURSIVE Drain_PushFirst(_, _)
Drain_PushFirst(st, to) ==
  \* variant: the group is pushed before bits is decreased
  IF st.bits >= to
  THEN Drain_PushFirst([st EXCEPT
                          !.bits = @ - to,
                          !.result = Append(@, MaskU8(Shr(st.acc, st.bits),
                                                      to))], to)
  ELSE st

RECURSIVE Drain(_, _)
Drain(st, to) ==
  \* while bits >= to { bits -= to; result.push(((acc >> bits) & maxv) as u8) }
  IF st.bits >= to
  THEN Drain([st EXCEPT !.bits = @ - to,
                        !.result = Append(@, MaskU8(Shr(st.acc, st.bits - to),
                                                    to))], to)
  ELSE st

ConvertStep(st, value, from, to) ==
  \* one pass of the loop over data.  With to = 0 the inner loop never
  \* ends: the call does not return.
  IF from < 31 /\ value >= Pow2(from)     \* (value as u32) >= (1 << from)
  THEN [st EXCEPT !.ok = FALSE, !.err = "Invalid value"]
  ELSE IF to = 0
  THEN [st EXCEPT !.ok = FALSE, !.err = "no return"]
  ELSE Drain([st EXCEPT !.acc = BitOr(Shl(@, from), U64(value)),
                        !.bits = @ + from], to)

RECURSIVE ConvertLoop(_, _, _, _, _, _)
ConvertLoop(data, lo, hi, st, from, to) ==
  \* for &value in data[lo..=hi], stopping at the first error
  IF ~st.ok \/ lo > hi THEN st
  ELSE IF lo = hi THEN ConvertStep(st, data[lo], from, to)
  ELSE LET mid == (lo + hi) \div 2
       IN  ConvertLoop(data, mid + 1, hi,
                       ConvertLoop(data, lo, mid, st, from, to), from, to)

convert_bits(data, from, to, pad) ==
  IF from >= 32 \/ to >= 32
  THEN [ok |-> FALSE, err |-> "Invalid bit size", bytes |-> <<>>]
  ELSE LET st == ConvertLoop(data, 1, Len(data),
                             [ok |-> TRUE, err |-> "", acc |-> Zeros(ACC_BITS),
                              bits |-> 0, result |-> <<>>], from, to)
       IN  IF ~st.ok THEN [ok |-> FALSE, err |-> st.err, bytes |-> <<>>]
           ELSE [ok |-> TRUE, err |-> "",
                 bytes |-> IF pad /\ st.bits > 0
                           THEN Append(st.result,
                                       MaskU8(Shl(st.acc, to - st.bits), to))
                           ELSE st.result]

build_payload(hash) == convert_bits(<<0>> \o hash, 8, 5, TRUE).bytes

hrp_expand(hrp) == [k \in 1..Len(hrp) |-> hrp[k] % 32] \o <<0>>

Xor5(a, b) ==
  \* a ^ b on 5-bit values
  ((a + b) % 2) +
  2 * (((a \div 2) + (b \div 2)) % 2) +
  4 * (((a \div 4) + (b \div 4)) % 2) +
  8 * (((a \div 8) + (b \div 8)) % 2) +
  16 * (((a \div 16) + (b \div 16)) % 2)

GENERATORS ==
  << <<19, 3, 25, 11, 25, 3, 19, 1>>,      \* 0x98f2bc8e61
     <<15, 6, 27, 22, 27, 6, 15, 2>>,      \* 0x79b76d99e2
     <<30, 12, 31, 5, 31, 12, 30, 4>>,     \* 0xf33e5fb3c4
     <<21, 24, 23, 10, 23, 24, 21, 8>>,    \* 0xae2eabe2a8
     <<3, 25, 7, 20, 7, 25, 3, 16>> >>     \* 0x1e4f43e470

XorIf(c0, k, c) ==
  \* if c0 & (1 << k) != 0 { c ^= GENERATORS[k] }
  IF (c0 \div Pow2(k)) % 2 = 1
  THEN <<Xor5(c[1], GENERATORS[k + 1][1]), Xor5(c[2], GENERATORS[k + 1][2]),
         Xor5(c[3], GENERATORS[k + 1][3]), Xor5(c[4], GENERATORS[k + 1][4]),
         Xor5(c[5], GENERATORS[k + 1][5]), Xor5(c[6], GENERATORS[k + 1][6]),
         Xor5(c[7], GENERATORS[k + 1][7]), Xor5(c[8], GENERATORS[k + 1][8])>>
  ELSE c

PolyStep(c, d) ==
  \* c0 = c >> 35; c = ((c & 0x07ffffffff) << 5) ^ d; the five conditional
  \* xors.  d is a u8: it reaches the two lowest groups.
  LET c0      == c[1]
      shifted == <<c[2], c[3], c[4], c[5], c[6], c[7],
                   Xor5(c[8], d \div 32), d % 32>>
  IN  XorIf(c0, 4, XorIf(c0, 3, XorIf(c0, 2, XorIf(c0, 1,
        XorIf(c0, 0, shifted)))))

RECURSIVE PolyLoop(_, _, _, _)
PolyLoop(data, lo, hi, c) ==
  \* for &d in data[lo..=hi]
  IF Len(c) = 0 \/ lo > hi THEN c
  ELSE IF lo = hi THEN PolyStep(c, data[lo])
  ELSE LET mid == (lo + hi) \div 2
       IN  PolyLoop(data, mid + 1, hi, PolyLoop(data, lo, mid, c))

poly_mod(data) ==
  LET c == PolyLoop(data, 1, Len(data), <<0, 0, 0, 0, 0, 0, 0, 1>>)
  IN  [c EXCEPT ![8] = Xor5(@, 1)]                      \* c ^ 1

compute_checksum_LowFirst(payload) ==
  \* variant: the groups are emitted from the least significant one
  LET data == hrp_expand(CASHADDR_PREFIX) \o payload \o Zeros(8)
      poly == poly_mod(data)
  IN  [i \in 1..8 |-> poly[9 - i]]    \* (poly >> (5 * i)) & 0x1F

compute_checksum(payload) ==
  LET data == hrp_expand(CASHADDR_PREFIX) \o payload \o Zeros(8)
      poly == poly_mod(data)
  IN  [i \in 1..8 |-> poly[i]]        \* (poly >> (5 * (7 - i))) & 0x1F

encode_payload(payload, checksum) ==
  LET full_encoded == payload \o checksum
  IN  [k \in 1..Len(full_encoded) |-> CASHADDR_CHARSET[full_encoded[k] + 1]]

cashaddr_ConstPrefix(hash, with_prefix) ==
  \* variant: the prefix constant is used, without the separator
  LET payload  == build_payload(hash)
      checksum == compute_checksum(payload)
      encoded  == encode_payload(payload, checksum)
  IN  IF with_prefix THEN CASHADDR_PREFIX \o encoded ELSE encoded

cashaddr(hash, with_prefix) ==
  LET payload  == build_payload(hash)
      checksum == compute_checksum(payload)
      encoded  == encode_payload(payload, checksum)
  IN  IF with_prefix THEN PREFIX_LITERAL \o encoded ELSE encoded

legacy_address_SingleHash(hash) ==
  \* variant: the checksum is taken from a single SHA-256
  LET address_byte == <<0>> \o hash
  IN  ToBase58(address_byte \o SubSeq(Sha256(address_byte), 1, 4))

legacy_address(hash) ==
  LET address_byte == <<0>> \o hash
  IN  ToBase58(address_byte \o SubSeq(Sha256(Sha256(address_byte)), 1, 4))

from_pubkey(pubkey, format) ==
  LET hash == Ripemd160(Sha256(pubkey))
  IN  CASE format = "Legacy" -> legacy_address(hash)
        [] format = "CashAddr" -> cashaddr(hash, FALSE)
        [] format = "CashAddrWithPrefix" -> cashaddr(hash, TRUE)

----------------------------------------------------------------------------
(* Inputs: extended-key strings as a caller can supply them                *)

LTUB_VERSION == <<1, 157, 164, 98>>

DGUB_VERSION == <<2, 250, 202, 253>>

Versions == {XPUB_VERSION, LTUB_VERSION, DGUB_VERSION}

MaxCount == 3

ADDRESS_LIMIT == 100

LARGE_COUNT == 1000

Counts == (0..MaxCount) \cup {ADDRESS_LIMIT, ADDRESS_LIMIT + 1, LARGE_COUNT}

ChainTypes == {0, 1}

MAX_NON_HARDENED == [hi |-> 32767, lo |-> 65535]     \* 0x7FFF_FFFF

SampleIndices ==
  {U32(0), U32(1), U32(2), MAX_NON_HARDENED, HARDENED,
   [hi |-> 32768, lo |-> 1], [hi |-> 65535, lo |-> 65535]}

SampleNodes ==
  \* the keys differ in which of their children have a valid tweak
  {Xpub_new(l[1], l[2], l[3], [j \in 1..32 |-> (j * 11) % 256], k) :
     l \in {<<0, U32(0), U32(0)>>,
            <<255, [hi |-> 46241, lo |-> 767], [hi |-> 32768, lo |-> 1]>>},
     k \in {<<12, 31>>, <<34, 40>>, <<13, 21>>, <<32, 3>>}}

Defects ==
  {{}, {"checksum"}, {"short"}, {"key"}, {"char"}, {"char", "short"},
   {"char", "key"}, {"short", "key"}, {"key", "checksum"}, {"long"}}

Wire(version, node, defects) ==
  \* the 82-byte form of node under version, Base58-encoded, then damaged:
  \* "key" spoils the public-key prefix, "checksum" the last checksum
  \* byte, "short" drops the last byte, "long" adds a byte, "char" puts
  \* a '0' in the text
  LET key     == serialize(node.public_key)
      payload == version \o <<node.depth>> \o
                 to_be_bytes(node.parent_fingerprint) \o
                 to_be_bytes(node.child_number) \o node.chain_code \o
                 (IF "key" \in defects THEN [key EXCEPT ![1] = 63] ELSE key)
      sum     == Checksum(payload)
      full    == payload \o
                 (IF "checksum" \in defects
                  THEN [sum EXCEPT ![4] = (sum[4] + 1) % 256] ELSE sum)
      text    == ToBase58(IF "short" \in defects
                          THEN SubSeq(full, 1, Len(full) - 1)
                          ELSE IF "long" \in defects THEN Append(full, 7)
                          ELSE full)
  IN  IF "char" \in defects THEN [text EXCEPT ![2] = 48] ELSE text

Inputs == {Wire(v, n, d) : v \in Versions, n \in SampleNodes, d \in Defects}

----------------------------------------------------------------------------
(* State                                                                   *)

VARIABLES
  overflow_checks,  \* build profile: integer overflow panics (TRUE) or wraps
  xpub,             \* the extended-key string supplied by the caller
  coin_type,        \* the coin selector supplied with the key, "none"
                    \* before the key is parsed
  pc,               \* "start", "ready" (parsed), "bip32" / "bip44" (in the
                    \* driver's loop), "done", "failed", "panicked"
  root,             \* the parsed node, as a sequence of at most one node
  call,             \* the last API call and what it returned
  batch,            \* the local variables of the running batch driver
  previous,         \* the batch call the session made before it repeated
                    \* it, op "none" when no call was repeated
  data              \* the byte string handed to a CashAddress helper

vars ==
  <<overflow_checks, xpub, coin_type, pc, root, call, batch, previous, data>>

Call(op, index, count, chain_type) ==
  [op |-> op, index |-> index, count |-> count, chain_type |-> chain_type,
   kind |-> "Running", err |-> "", at |-> -1, cause |-> "",
   node |-> <<>>, text |-> <<>>, addresses |-> <<>>, format |-> "none",
   from |-> 0, to |-> 0, pad |-> FALSE]

Returned(c, r) ==
  \* the call c after an Xpub-valued Result r came back
  [c EXCEPT !.kind = r.kind, !.err = r.err, !.node = r.node]

NoBatch ==
  [count |-> 0, parent |-> <<>>, i |-> 0, addresses |-> <<>>,
   derived |-> <<>>]

Init ==
  /\ xpub \in Inputs
  /\ overflow_checks \in BOOLEAN
  /\ coin_type = "none"
  /\ pc = "start"
  /\ root = <<>>
  /\ call = Call("none", U32(0), 0, 0)
  /\ batch = NoBatch
  /\ previous = Call("none", U32(0), 0, 0)
  /\ data = <<>>

----------------------------------------------------------------------------
(* Operations                                                              *)

CoinTypes == {"bitcoin", "litecoin", "dogecoin", "bitcoincash"}

Parse ==
  \* Xpub::from_base58(xpub), called with a coin selector, which the
  \* function takes no account of
  /\ pc = "start"
  /\ LET r == from_base58(xpub)
     IN  /\ call' = Returned(Call("from_base58", U32(0), 0, 0), r)
         /\ root' = r.node
         /\ pc' = IF r.kind = "Ok" THEN "ready" ELSE "failed"
         /\ coin_type' \in CoinTypes
  /\ UNCHANGED <<overflow_checks, previous, data, xpub, batch>>

Serialize ==
  \* root.to_base58()
  /\ pc = "ready"
  /\ call' = [Call("to_base58", U32(0), 0, 0) EXCEPT
                !.kind = "Ok", !.text = to_base58(root[1])]
  /\ pc' = "done"
  /\ UNCHANGED <<overflow_checks, previous, data, xpub, coin_type, root, batch>>

ToAddress ==
  \* root.to_bitcoin_address()
  /\ pc = "ready"
  /\ call' = [Call("to_bitcoin_address", U32(0), 0, 0) EXCEPT
                !.kind = "Ok", !.text = to_bitcoin_address(root[1])]
  /\ pc' = "done"
  /\ UNCHANGED <<overflow_checks, previous, data, xpub, coin_type, root, batch>>

Fingerprint ==
  \* root.fingerprint(): the u32 result is kept in the call's index field
  /\ pc = "ready"
  /\ call' = [Call("fingerprint", fingerprint(root[1]), 0, 0) EXCEPT
                !.kind = "Ok"]
  /\ pc' = "done"
  /\ UNCHANGED <<overflow_checks, previous, data, xpub, coin_type, root, batch>>

FromPubkey(format) ==
  \* CashAddress::from_pubkey(&key.serialize(), &format) for the key of the
  \* node just parsed or just derived
  /\ pc \in {"ready", "done"}
  /\ call.op \in {"from_base58", "derive_non_hardened"}
  /\ call.kind = "Ok"
  /\ call' = [Call("from_pubkey", U32(0), 0, 0) EXCEPT
                !.kind = "Ok", !.format = format, !.node = call.node,
                !.text = from_pubkey(serialize(call.node[1].public_key),
                                     format)]
  /\ pc' = "done"
  /\ UNCHANGED <<overflow_checks, previous, data, xpub, coin_type, root, batch>>

DeriveChild(index) ==
  \* root.derive_non_hardened(index)
  /\ pc = "ready"
  /\ LET r == derive_non_hardened(root[1], index, overflow_checks)
     IN  /\ call' = Returned(Call("derive_non_hardened", index, 0, 0), r)
         /\ pc' = IF r.kind = "Panic" THEN "panicked" ELSE "done"
  /\ UNCHANGED <<overflow_checks, previous, data, xpub, coin_type, root, batch>>

OverLimit(count) == count > ADDRESS_LIMIT

Repeats(op, count, chain_type) ==
  \* a session that repeats a batch call asks the same driver again, for
  \* at most as many addresses
  \/ previous.op = "none"
  \/ /\ previous.op = op
     /\ previous.chain_type = chain_type
     /\ count <= previous.count

Bip32Call(count) ==
  \* root.derive_bip32_addresses(count): the limit check and the locals
  /\ pc = "ready"
  /\ Repeats("derive_bip32_addresses", count, 0)
  /\ IF OverLimit(count)
     THEN /\ call' = [Call("derive_bip32_addresses", U32(0), count, 0) EXCEPT
                        !.kind = "Err",
                        !.err = "Can't generate more than 100 addresses"]
          /\ pc' = "done"
          /\ UNCHANGED batch
     ELSE /\ call' = Call("derive_bip32_addresses", U32(0), count, 0)
          /\ batch' = [NoBatch EXCEPT !.count = count, !.parent = root]
          /\ pc' = "bip32"
  /\ UNCHANGED <<overflow_checks, previous, data, xpub, coin_type, root>>

LoopContinues_Inclusive(i, count) == i <= count
  \* variant: for i in 0..=count

LoopContinues(i, count) == i < count          \* for i in 0..count

ChildError_Skip(r) ==
  \* variant: a failed child is skipped and the loop goes on
  /\ batch' = [batch EXCEPT !.i = @ + 1, !.derived = Append(@, batch.i)]
  /\ UNCHANGED <<pc, call>>

ChildError(r) ==
  \* Err(e) => return Err(format!("Error deriving child {}: {}", i, e))
  /\ call' = [call EXCEPT !.kind = "Err", !.err = "Error deriving child",
                          !.at = batch.i, !.cause = r.err]
  /\ batch' = [batch EXCEPT !.derived = Append(@, batch.i)]
  /\ pc' = "done"

SameParent_Chained(parent, child) == child
  \* variant: the next pass derives from the child just derived

SameParent(parent, child) == parent
  \* every pass derives from the node the loop started with

Iterate ==
  \* one pass of the loop: derive child i of the loop's node, push its
  \* address or return the error
  LET r == derive_non_hardened(batch.parent[1], U32(batch.i), overflow_checks)
  IN  /\ LoopContinues(batch.i, batch.count)
      /\ CASE r.kind = "Ok" ->
                /\ batch' = [batch EXCEPT
                     !.i = @ + 1,
                     !.addresses = Append(@, to_bitcoin_address(r.node[1])),
                     !.derived = Append(@, batch.i),
                     !.parent = SameParent(batch.parent, r.node)]
                /\ UNCHANGED <<pc, call>>
           [] r.kind = "Err" -> ChildError(r)
           [] r.kind = "Panic" ->
                /\ call' = [call EXCEPT !.kind = "Panic", !.err = r.err,
                                        !.at = batch.i]
                /\ batch' = [batch EXCEPT !.derived = Append(@, batch.i)]
                /\ pc' = "panicked"
      /\ UNCHANGED <<overflow_checks, previous, data, xpub, coin_type, root>>

Finish ==
  \* the loop is over: Ok(addresses)
  /\ ~LoopContinues(batch.i, batch.count)
  /\ call' = [call EXCEPT !.kind = "Ok", !.addresses = batch.addresses]
  /\ pc' = "done"
  /\ UNCHANGED <<overflow_checks, previous, data, xpub, coin_type, root, batch>>

Bip32Iter == pc = "bip32" /\ Iterate

Bip32Return == pc = "bip32" /\ Finish

AccountIndex(chain_type) == U32(0)
  \* the account node is always derived at index 0

Bip44Call(count, chain_type) ==
  \* root.derive_bip44_addresses(count), asked for chain chain_type: the
  \* limit check, the account node and the locals
  /\ pc = "ready"
  /\ Repeats("derive_bip44_addresses", count, chain_type)
  /\ LET c   == Call("derive_bip44_addresses", U32(0), count, chain_type)
         acc == derive_non_hardened(root[1], AccountIndex(chain_type),
                                    overflow_checks)
     IN  IF OverLimit(count)
         THEN /\ call' = [c EXCEPT
                            !.kind = "Err",
                            !.err = "Can't generate more than 100 addresses"]
              /\ pc' = "done"
              /\ UNCHANGED batch
         ELSE CASE acc.kind = "Ok" ->
                     /\ call' = c
                     /\ batch' = [NoBatch EXCEPT !.count = count,
                                                 !.parent = acc.node]
                     /\ pc' = "bip44"
                [] acc.kind = "Err" ->
                     /\ call' = [c EXCEPT !.kind = "Err",
                                   !.err = "Error deriving account",
                                   !.cause = acc.err]
                     /\ batch' = NoBatch
                     /\ pc' = "done"
                [] acc.kind = "Panic" ->
                     /\ call' = [c EXCEPT !.kind = "Panic", !.err = acc.err]
                     /\ batch' = NoBatch
                     /\ pc' = "panicked"
  /\ UNCHANGED <<overflow_checks, previous, data, xpub, coin_type, root>>

Bip44Iter == pc = "bip44" /\ Iterate

Bip44Return == pc = "bip44" /\ Finish

Next ==
  \/ Parse
  \/ Serialize
  \/ ToAddress
  \/ Fingerprint
  \/ \E format \in AddressFormats : FromPubkey(format)
  \/ \E index \in SampleIndices : DeriveChild(index)
  \/ \E count \in Counts : Bip32Call(count)
  \/ Bip32Iter
  \/ Bip32Return
  \/ \E count \in Counts, chain_type \in ChainTypes :
       Bip44Call(count, chain_type)
  \/ Bip44Iter
  \/ Bip44Return

Spec == Init /\ [][Next]_vars

Repeat ==
  \* the caller keeps the addresses a batch call returned and makes the
  \* call once more on the same node
  /\ pc = "done"
  /\ call.op \in {"derive_bip32_addresses", "derive_bip44_addresses"}
  /\ call.kind = "Ok"
  /\ previous.op = "none"
  /\ previous' = call
  /\ pc' = "ready"
  /\ UNCHANGED <<overflow_checks, data, xpub, coin_type, root, call, batch>>

BatchNext ==
  \/ Parse
  \/ \E count \in Counts : Bip32Call(count)
  \/ Bip32Iter
  \/ Bip32Return
  \/ \E count \in Counts, chain_type \in ChainTypes :
       Bip44Call(count, chain_type)
  \/ Bip44Iter
  \/ Bip44Return
  \/ Repeat

BatchSpec == Init /\ [][BatchNext]_vars

----------------------------------------------------------------------------
(* The CashAddress helpers of utils.rs run on their own, on byte strings.  *)

MaxSeed == 7
MaxDataLen == 22
HASH_LEN == 20

Pattern(seed, n) ==
  \* a byte string of length n: all 0xff, all zero, or mixed bytes
  [k \in 1..n |->
     IF seed = 0 THEN 255
     ELSE IF seed = 1 THEN 0
     ELSE (k * k * seed + 37 * k + 11 * seed) % 256]

ByteInputs == {Pattern(seed, n) : seed \in 0..MaxSeed, n \in 0..MaxDataLen}

BitSizes == {<<8, 5>>, <<5, 8>>, <<8, 8>>, <<32, 5>>, <<8, 32>>}

UtilsInit ==
  /\ data \in ByteInputs
  /\ overflow_checks = FALSE
  /\ xpub = <<>>
  /\ coin_type = "none"
  /\ pc = "utils"
  /\ root = <<>>
  /\ call = Call("none", U32(0), 0, 0)
  /\ batch = NoBatch
  /\ previous = Call("none", U32(0), 0, 0)

ConvertBits(from, to, pad) ==
  \* convert_bits(data, from, to, pad)
  /\ pc = "utils"
  /\ LET r == convert_bits(data, from, to, pad)
     IN  call' = [Call("convert_bits", U32(0), 0, 0) EXCEPT
                    !.kind = IF r.ok THEN "Ok" ELSE "Err",
                    !.err = r.err, !.text = r.bytes,
                    !.from = from, !.to = to, !.pad = pad]
  /\ pc' = "done"
  /\ UNCHANGED <<overflow_checks, previous, data, xpub, coin_type, root, batch>>

CashAddr(with_prefix) ==
  \* CashAddress::cashaddr(hash, with_prefix) on a 20-byte hash
  /\ pc = "utils"
  /\ Len(data) = HASH_LEN
  /\ call' = [Call("cashaddr", U32(0), 0, 0) EXCEPT
                !.kind = "Ok", !.text = cashaddr(data, with_prefix),
                !.format = IF with_prefix THEN "CashAddrWithPrefix"
                           ELSE "CashAddr"]
  /\ pc' = "done"
  /\ UNCHANGED <<overflow_checks, previous, data, xpub, coin_type, root, batch>>

UtilsNext ==
  \/ \E sizes \in BitSizes, pad \in BOOLEAN :
       ConvertBits(sizes[1], sizes[2], pad)
  \/ \E with_prefix \in BOOLEAN : CashAddr(with_prefix)

UtilsSpec == UtilsInit /\ [][UtilsNext]_vars

----------------------------------------------------------------------------
(* Properties                                                              *)

BatchOps == {"derive_bip32_addresses", "derive_bip44_addresses"}

I_of(parent, index) ==
  \* the 64 bytes I = I_L || I_R of parent and index
  HmacSha512(parent.chain_code,
             serialize(parent.public_key) \o to_be_bytes(index))

TweakedKey(parent, index) ==
  \* parent's key tweaked by I_L, as a sequence of at most one point
  LET t == SecretKey_from_slice(SubSeq(I_of(parent, index), 1, 32))
  IN  IF t = <<>> THEN <<>> ELSE add_exp_tweak(parent.public_key, t[1])

Decoded == FromBase58(xpub)

\* C1: derive_non_hardened returns an error and no child for every index
\* >= 0x8000_0000, and no index <= 0x7FFF_FFFF is rejected on account of the
\* index: such an index is refused only when its tweak is invalid.
C1_HardenedRejected ==
  call.op = "derive_non_hardened" =>
    IF call.index.hi >= 32768
    THEN call.kind = "Err" /\ call.node = <<>>
    ELSE call.kind = "Err" => TweakedKey(root[1], call.index) = <<>>

C1_Witness ==
  /\ call.op = "derive_non_hardened"
  /\ call.index = HARDENED
  /\ call.kind = "Err"
  /\ TweakedKey(root[1], HARDENED) # <<>>

\* C2: for any valid 82-byte Base58Check extended-key string x of any
\* supported coin family, to_base58(from_base58(x)) equals x.
C2_RoundTrip ==
  (/\ call.op = "to_base58"
   /\ Decoded.ok
   /\ Len(Decoded.bytes) = 82
   /\ SubSeq(Decoded.bytes, 1, 4) \in Versions
   /\ SubSeq(Decoded.bytes, 79, 82) = Checksum(SubSeq(Decoded.bytes, 1, 78)))
  => call.text = xpub

\* C3: from_base58 verifies the checksum: an input that decodes to 82 bytes
\* whose last 4 bytes differ from SHA256(SHA256(first 78 bytes))[0:4] is
\* rejected with a checksum error and yields no node.
C3_ChecksumVerified ==
  (/\ call.op = "from_base58"
   /\ Decoded.ok
   /\ Len(Decoded.bytes) = 82
   /\ SubSeq(Decoded.bytes, 79, 82) # Checksum(SubSeq(Decoded.bytes, 1, 78)))
  => (call.kind = "Err" /\ call.err = "Checksum mismatch" /\ call.node = <<>>)

\* C4: whenever derive_non_hardened succeeds on parent P and index i, the
\* child has depth P.depth + 1, parent_fingerprint fingerprint(P),
\* child_number i, chain_code I_R and public_key P.public_key tweaked by I_L.
C4_ChildFields ==
  (call.op = "derive_non_hardened" /\ call.kind = "Ok") =>
    LET P     == root[1]
        child == call.node[1]
    IN  /\ child.depth = P.depth + 1
        /\ child.parent_fingerprint =
             from_be_bytes(SubSeq(Ripemd160(Sha256(serialize(P.public_key))),
                                  1, 4))
        /\ child.child_number = call.index
        /\ child.chain_code = SubSeq(I_of(P, call.index), 33, 64)
        /\ <<child.public_key>> = TweakedKey(P, call.index)

\* C5: a batch driver returns Ok with exactly count addresses whenever
\* every underlying derivation step succeeds, for every count (101 and 1000
\* included): it fails only with the error of a derivation step.
C5_AnyCount ==
  (pc = "done" /\ call.op \in BatchOps) =>
    \/ call.kind = "Ok" /\ Len(call.addresses) = call.count
    \/ /\ call.kind = "Err"
       /\ call.err \in {"Error deriving child", "Error deriving account"}

\* C6 as stated: for any node and in every batch mode, requesting count 0
\* returns Ok with an empty sequence of addresses.
C6_ZeroAlwaysEmpty ==
  (pc = "done" /\ call.op \in BatchOps /\ call.count = 0) =>
    (call.kind = "Ok" /\ call.addresses = <<>>)

\* C6 amended: in flat mode count 0 returns Ok with an empty sequence for
\* any node; in BIP44 mode it does so exactly when deriving the account node
\* (child 0 of the root) returns a node, and otherwise the call does not
\* return Ok: it returns the account-derivation error.
C6_ZeroCount ==
  (call.op \in BatchOps /\ call.count = 0 /\ pc \in {"done", "panicked"}) =>
    IF \/ call.op = "derive_bip32_addresses"
       \/ derive_non_hardened(root[1], U32(0), overflow_checks).kind = "Ok"
    THEN pc = "done" /\ call.kind = "Ok" /\ call.addresses = <<>>
    ELSE pc = "done" => (call.kind = "Err" /\
                         call.err = "Error deriving account")

C6_Witness ==
  /\ pc = "done"
  /\ call.op = "derive_bip44_addresses"
  /\ call.count = 0
  /\ call.kind = "Ok"
  /\ call.addresses = <<>>

LoopNode ==
  \* the node whose children a batch derives, as a sequence of at most one
  IF call.op = "derive_bip32_addresses" THEN root
  ELSE derive_non_hardened(root[1], U32(0), overflow_checks).node

ChildFails(i) ==
  derive_non_hardened(LoopNode[1], U32(i), overflow_checks).kind = "Err"

\* C7: batch drivers fail fast: if deriving child i fails, the driver
\* returns an error naming i, the smallest failing index; no index greater
\* than i is derived and no address computed for an index below i is
\* returned.
C7_FailFast ==
  (/\ pc = "done"
   /\ call.op \in BatchOps
   /\ call.count <= ADDRESS_LIMIT
   /\ LoopNode # <<>>
   /\ \E i \in 0..(call.count - 1) : ChildFails(i))
  => LET first == CHOOSE i \in 0..(call.count - 1) :
                    ChildFails(i) /\ \A j \in 0..(i - 1) : ~ChildFails(j)
     IN  /\ call.kind = "Err"
         /\ call.err = "Error deriving child"
         /\ call.at = first
         /\ batch.derived = [k \in 1..(first + 1) |-> k - 1]
         /\ call.addresses = <<>>

C7_Witness ==
  /\ pc = "done"
  /\ call.op \in BatchOps
  /\ call.err = "Error deriving child"
  /\ call.at >= 1
  /\ Len(batch.addresses) = call.at
  /\ call.count > call.at + 1

\* C8: in flat mode, when derive_bip32_addresses(count) succeeds, entry i of
\* the result is the address of derive_non_hardened(root, i): every child
\* is derived from the root, never from a previously derived child, and the
\* entries are in increasing index order.
C8_FlatFromRoot ==
  (pc = "done" /\ call.op = "derive_bip32_addresses" /\ call.kind = "Ok") =>
    /\ Len(call.addresses) = call.count
    /\ \A i \in 0..(call.count - 1) :
         LET c == derive_non_hardened(root[1], U32(i), overflow_checks)
         IN  /\ c.kind = "Ok"
             /\ call.addresses[i + 1] = to_bitcoin_address(c.node[1])

C8_Witness ==
  /\ pc = "done"
  /\ call.op = "derive_bip32_addresses"
  /\ call.kind = "Ok"
  /\ call.count >= 2
  /\ Len(call.addresses) = call.count

\* C9: in BIP44 mode entry i of the result is the address of
\* derive(derive(root, c), i), where c is 0 when no chain parameter is
\* given and the supplied chain_type when one is given; the intermediate
\* node is derived once from the root and has depth root.depth + 1.
C9_ChainIndex ==
  (pc = "done" /\ call.op = "derive_bip44_addresses" /\ call.kind = "Ok") =>
    LET acc == derive_non_hardened(root[1], U32(call.chain_type),
                                   overflow_checks)
    IN  /\ acc.kind = "Ok"
        /\ acc.node[1].depth = root[1].depth + 1
        /\ batch.parent = acc.node
        /\ Len(call.addresses) = call.count
        /\ \A i \in 0..(call.count - 1) :
             LET c == derive_non_hardened(acc.node[1], U32(i),
                                          overflow_checks)
             IN  /\ c.kind = "Ok"
                 /\ call.addresses[i + 1] = to_bitcoin_address(c.node[1])

\* C10: from_base58 reports failures in a fixed precedence: a non-alphabet
\* character gives the Base58 decode error; otherwise a decoded length other
\* than 82 gives the invalid-length error; otherwise bytes[45:78] that are
\* not a valid compressed point give the invalid-public-key error; in each
\* failing case no node is returned.
C10_ErrorPrecedence ==
  call.op = "from_base58" =>
    IF \E k \in 1..Len(xpub) : \A d \in 1..58 : ALPHABET[d] # xpub[k]
    THEN call.kind = "Err" /\ call.err = "Base58 decode error" /\
         call.node = <<>>
    ELSE IF Len(Decoded.bytes) # 82
    THEN call.kind = "Err" /\ call.err = "Invalid xpub length" /\
         call.node = <<>>
    ELSE IF PublicKey_from_slice(Slice(Decoded.bytes, 45, 78)) = <<>>
    THEN call.kind = "Err" /\ call.err = "Invalid public key" /\
         call.node = <<>>
    ELSE call.kind = "Ok"

C10_Witness ==
  /\ call.op = "from_base58"
  /\ call.err = "Invalid xpub length"
  /\ Len(Decoded.bytes) = 81
  /\ PublicKey_from_slice(Slice(Decoded.bytes, 45, 78)) = <<>>

ExpectedVersion(coin) ==
  \* the version prefix of the keys the tests parse for each coin selector
  CASE coin = "litecoin" -> LTUB_VERSION
    [] coin = "dogecoin" -> DGUB_VERSION
    [] OTHER -> XPUB_VERSION

\* C11: parsing an extended key requires the 4 version bytes on the wire to
\* agree with the coin selector supplied by the caller; when they disagree
\* the parse fails with VersionMismatch and returns no node.
C11_VersionChecked ==
  (/\ call.op = "from_base58"
   /\ Decoded.ok
   /\ Len(Decoded.bytes) = 82
   /\ SubSeq(Decoded.bytes, 1, 4) # ExpectedVersion(coin_type))
  => (call.kind = "Err" /\ call.err = "VersionMismatch" /\ call.node = <<>>)

LegacyFirstChar(coin) ==
  \* the first character of a Legacy address of each coin family:
  \* 'L', 'D' and '1'
  CASE coin = "litecoin" -> 76
    [] coin = "dogecoin" -> 68
    [] OTHER -> 49

\* C12: the version byte of a Legacy address is taken from the node's coin
\* family: Litecoin addresses start with 'L', Dogecoin addresses with 'D'
\* and Bitcoin addresses with '1'.
C12_CoinVersionByte ==
  /\ call.op = "to_bitcoin_address" => call.text[1] = LegacyFirstChar(coin_type)
  /\ (pc = "done" /\ call.op \in BatchOps /\ call.kind = "Ok") =>
       \A i \in 1..Len(call.addresses) :
         call.addresses[i][1] = LegacyFirstChar(coin_type)

LegacyLayout(address, public_key) ==
  \* address is the Base58 text of 0x00, HASH160(public_key) and the
  \* first 4 bytes of the double SHA256 of those 21 bytes
  LET b == FromBase58(address)
  IN  /\ b.ok
      /\ Len(b.bytes) = 25
      /\ b.bytes[1] = 0
      /\ SubSeq(b.bytes, 2, 21) = Ripemd160(Sha256(serialize(public_key)))
      /\ SubSeq(b.bytes, 22, 25) =
           SubSeq(Sha256(Sha256(SubSeq(b.bytes, 1, 21))), 1, 4)

C15_ErrorKinds ==
  (call.op = "derive_non_hardened" /\ call.kind = "Err") =>
    IF call.index.hi >= 32768
    THEN call.err = "HardenedNotSupported"
    ELSE call.err = "InvalidTweak"

\* C16: depth increments by exactly 1 per derivation step and never wraps:
\* for every parent, one of depth 255 included, a successful
\* derive_non_hardened returns a child whose depth is the parent's depth
\* plus 1 as an integer, never 0.
C16_DepthNeverWraps ==
  /\ (call.op = "derive_non_hardened" /\ call.kind = "Ok") =>
       (call.node[1].depth # 0 /\ call.node[1].depth - root[1].depth = 1)
  /\ (call.op = "derive_bip44_addresses" /\ batch.parent # <<>>) =>
       (batch.parent[1].depth # 0 /\
        batch.parent[1].depth - root[1].depth = 1)

\* C17 as stated: every Xpub node the engine returns, from from_base58 or
\* from derive_non_hardened, has child_number < 0x8000_0000.
C17_NeverHardened ==
  call.node # <<>> => call.node[1].child_number.hi < 32768

\* C17 amended: every node returned by derive_non_hardened has child_number
\* < 0x8000_0000, the index requested; a node returned by from_base58
\* carries the child number held big-endian in bytes 9..13 of the key,
\* whatever it is.
C17_ChildNumberRange ==
  /\ (call.op = "derive_non_hardened" /\ call.kind = "Ok") =>
       /\ call.node[1].child_number.hi < 32768
       /\ call.node[1].child_number = call.index
  /\ (call.op = "derive_bip44_addresses" /\ batch.parent # <<>>) =>
       batch.parent[1].child_number.hi < 32768
  /\ (call.op = "from_base58" /\ call.kind = "Ok") =>
       call.node[1].child_number =
         [hi |-> Decoded.bytes[10] * 256 + Decoded.bytes[11],
          lo |-> Decoded.bytes[12] * 256 + Decoded.bytes[13]]

C17_Witness ==
  /\ call.op = "derive_non_hardened"
  /\ call.kind = "Ok"
  /\ call.index = MAX_NON_HARDENED
  /\ root[1].child_number.hi >= 32768

InCharset(c) == \E k \in 1..32 : CASHADDR_CHARSET[k] = c

\* C14: for every 20-byte hash, the CashAddrWithPrefix rendering is the
\* literal "bitcoincash:" followed by exactly the CashAddr (no prefix)
\* rendering of the same hash; that remainder consists only of characters
\* of the 32-character charset, and the prefix is never present in the
\* CashAddr (no prefix) rendering.
C14_PrefixForm ==
  call.op = "from_pubkey" =>
    LET pubkey == serialize(call.node[1].public_key)
        prefix == <<98, 105, 116, 99, 111, 105, 110, 99, 97, 115, 104, 58>>
    IN  /\ call.format = "CashAddrWithPrefix" =>
             /\ Len(call.text) > 12
             /\ SubSeq(call.text, 1, 12) = prefix
             /\ SubSeq(call.text, 13, Len(call.text)) =
                  from_pubkey(pubkey, "CashAddr")
             /\ \A k \in 13..Len(call.text) : InCharset(call.text[k])
        /\ call.format = "CashAddr" =>
             /\ \A k \in 1..Len(call.text) : InCharset(call.text[k])
             /\ Len(call.text) < 12 \/ SubSeq(call.text, 1, 12) # prefix
             /\ prefix \o call.text =
                  from_pubkey(pubkey, "CashAddrWithPrefix")

C14_Witness ==
  /\ call.op = "from_pubkey"
  /\ call.format = "CashAddrWithPrefix"
  /\ Len(call.text) = 54

OtherNode(n) ==
  \* a node with the public key of n and every other field different
  Xpub_new((n.depth + 128) % 256,
           [hi |-> (n.parent_fingerprint.hi + 1) % 65536,
            lo |-> (n.parent_fingerprint.lo + 1) % 65536],
           [hi |-> (n.child_number.hi + 1) % 65536,
            lo |-> (n.child_number.lo + 1) % 65536],
           [j \in 1..32 |-> (n.chain_code[j] + 1) % 256],
           n.public_key)

\* C18: fingerprint(node) depends only on the public key: a node with the
\* same public_key and different depth, parent_fingerprint, child_number
\* and chain_code has the same fingerprint, the first 4 bytes of the
\* HASH160 of the compressed key read big-endian.
C18_FingerprintOfKey ==
  call.op = "fingerprint" =>
    /\ call.index = fingerprint(OtherNode(root[1]))
    /\ LET h == Ripemd160(Sha256(serialize(root[1].public_key)))
       IN  call.index = [hi |-> h[1] * 256 + h[2], lo |-> h[3] * 256 + h[4]]

C18_Witness ==
  /\ call.op = "fingerprint"
  /\ call.kind = "Ok"
  /\ OtherNode(root[1]).chain_code # root[1].chain_code
  /\ OtherNode(root[1]).public_key = root[1].public_key

\* C20: for every node n, from_base58(to_base58(n)) succeeds and returns a
\* node equal to n in all five fields, the fields being written big-endian
\* at offsets depth [4], parent fingerprint [5:9], child number [9:13],
\* chain code [13:45], public key [45:78].
C20_NodeRoundTrip ==
  call.op = "to_base58" =>
    LET n == root[1]
        r == from_base58(call.text)
        b == FromBase58(call.text).bytes
    IN  /\ r.kind = "Ok"
        /\ r.node = <<n>>
        /\ Len(b) = 82
        /\ b[5] = n.depth
        /\ Slice(b, 5, 9) = <<n.parent_fingerprint.hi \div 256,
                              n.parent_fingerprint.hi % 256,
                              n.parent_fingerprint.lo \div 256,
                              n.parent_fingerprint.lo % 256>>
        /\ Slice(b, 9, 13) = <<n.child_number.hi \div 256,
                               n.child_number.hi % 256,
                               n.child_number.lo \div 256,
                               n.child_number.lo % 256>>
        /\ Slice(b, 13, 45) = n.chain_code
        /\ Slice(b, 45, 78) = serialize(n.public_key)

C20_Witness ==
  /\ call.op = "to_base58"
  /\ root[1].depth = 255
  /\ root[1].parent_fingerprint = [hi |-> 46241, lo |-> 767]
  /\ from_base58(call.text).kind = "Ok"

\* C23: batch results are prefix-stable.  When a batch driver has succeeded
\* for count m on a node and is run again on the same node for a count
\* n <= m, the second run succeeds too and returns exactly the first n
\* entries of the first result.
C23_PrefixStable ==
  (previous.op \in BatchOps /\ pc \in {"done", "panicked"})
    => /\ call.op = previous.op
       /\ call.count <= previous.count
       /\ call.kind = "Ok"
       /\ Len(call.addresses) = call.count
       /\ call.addresses = SubSeq(previous.addresses, 1, call.count)

C23_Witness ==
  /\ previous.op = "derive_bip44_addresses"
  /\ previous.kind = "Ok"
  /\ previous.count = MaxCount
  /\ pc = "done"
  /\ call.count = MaxCount - 1
  /\ call.addresses = SubSeq(previous.addresses, 1, MaxCount - 1)
  /\ previous.addresses[1] # previous.addresses[MaxCount]


BitsOf(groups, width) ==
  \* the bits of a sequence of width-bit groups, most significant first
  [k \in 1..(width * Len(groups)) |->
     (groups[((k - 1) \div width) + 1]
        \div Pow2(width - 1 - ((k - 1) % width))) % 2]

\* C22: convert_bits(data, 8, 5, true) returns Ok with exactly
\* ceil(8 * n / 5) groups for n input bytes, every group is in 0..31, and
\* the bits of the groups, most significant first, are the input bits
\* followed by zero padding bits; inputs longer than 8 bytes included.
C22_RegroupedBits ==
  (call.op = "convert_bits" /\ call.from = 8 /\ call.to = 5 /\ call.pad)
    => /\ call.kind = "Ok"
       /\ Len(call.text) = (8 * Len(data) + 4) \div 5
       /\ \A k \in 1..Len(call.text) : call.text[k] \in 0..31
       /\ BitsOf(call.text, 5) =
            BitsOf(data, 8) \o Zeros(5 * Len(call.text) - 8 * Len(data))

C22_Witness ==
  /\ call.op = "convert_bits" /\ call.from = 8 /\ call.to = 5 /\ call.pad
  /\ Len(data) = 21
  /\ Len(call.text) = 34
  /\ \E k \in 1..21 : data[k] \notin {0, 255}
  /\ SubSeq(BitsOf(call.text, 5), 1, 168) = BitsOf(data, 8)

CharsetIndex(c) == CHOOSE k \in 0..31 : CASHADDR_CHARSET[k + 1] = c

\* C21: every CashAddr produced is self-validating.  For a 20-byte hash,
\* poly_mod over the expanded prefix, the payload groups and the checksum
\* groups of compute_checksum yields 0, and so do the groups read back
\* from the text that cashaddr returned.
C21_SelfValidating ==
  call.op = "cashaddr"
    => LET payload == build_payload(data)
           encoded == IF call.format = "CashAddrWithPrefix"
                      THEN SubSeq(call.text, Len(PREFIX_LITERAL) + 1,
                                  Len(call.text))
                      ELSE call.text
           groups  == [k \in 1..Len(encoded) |-> CharsetIndex(encoded[k])]
       IN  /\ poly_mod(hrp_expand(CASHADDR_PREFIX) \o payload
                         \o compute_checksum(payload)) = Zeros(8)
           /\ \A k \in 1..Len(encoded) : InCharset(encoded[k])
           /\ Len(encoded) = 42
           /\ poly_mod(hrp_expand(CASHADDR_PREFIX) \o groups) = Zeros(8)

C21_Witness ==
  /\ call.op = "cashaddr"
  /\ call.format = "CashAddr"
  /\ Len(call.text) = 42
  /\ compute_checksum(build_payload(data)) # Zeros(8)
  /\ \E k \in 1..HASH_LEN : data[k] \notin {0, 255}


\* C24: the two Legacy renderers agree.  For every node,
\* Xpub::to_bitcoin_address() returns the same string as
\* CashAddress::from_pubkey(compressed public key of the node, Legacy).
C24_LegacyRenderersAgree ==
  /\ (call.op = "to_bitcoin_address" /\ call.kind = "Ok")
       => call.text = from_pubkey(serialize(root[1].public_key), "Legacy")
  /\ (call.op = "from_pubkey" /\ call.format = "Legacy")
       => call.text = to_bitcoin_address(call.node[1])

C24_Witness ==
  /\ call.op = "from_pubkey"
  /\ call.format = "Legacy"
  /\ call.node # root
  /\ call.text = to_bitcoin_address(call.node[1])
  /\ call.text # to_bitcoin_address(root[1])

====
